---------------------------- MODULE Spec2Model ----------------------------
(***************************************************************************)
(* PyEmittance beam-size acquisition pipeline:                             *)
(*   machine_io.MachineIO.get_beamsizes_machine  (measurement front door)  *)
(*   otrs_io.get_beamsizes                       (batch-level rejection)   *)
(*   otrs_io.getbeamsizes_from_img               (per-image retry,         *)
(*                                                aggregation)             *)
(*   otrs_io.get_beam_image                      (one acquisition)         *)
(*                                                                         *)
(* Numbers.  A float is a record [n, d]: the rational n/d in lowest terms  *)
(* with d > 0, or NaN, written [n |-> 0, d |-> 0].  Every comparison with  *)
(* NaN is false and every arithmetic operation on NaN gives NaN, as in     *)
(* IEEE-754.  Lengths are in pixels before line 111 of otrs_io.py and in   *)
(* units of 1e-7 m after it (so that products of two lengths stay within   *)
(* 32 bits): 1e-6 m is Micro = 10 and 0.5e-4 m is 500.                     *)
(*                                                                         *)
(* Error terms.  The fields xrms_err and yrms_err carry the SQUARE of the  *)
(* error: a non-negative real is determined by its square, and in squares  *)
(* np.std(v)/np.sqrt(k) is Var(v)/k and err*resolution is                  *)
(* errsq*resolution^2, both rational.                                      *)
(***************************************************************************)
EXTENDS Integers, Sequences, FiniteSets, TLC

VARIABLES
    pc,             \* position of the single thread of control
    online,         \* MachineIO.online
    meas_type,      \* MachineIO.meas_type
    cntrl_pv,       \* value last put to meas_cntrl_pv (None before any put)
    events,         \* what get_beamsizes_machine has done so far, in order
    quad_val,       \* argument of get_beamsizes_machine
    cfg,            \* config_dict["img_proc"] entries read by otrs_io
    args,           \* reject_bad_beam, save_summary of get_beamsizes
    resolution,     \* get_beamsizes: metres per pixel (line 45)
    loc,            \* get_beamsizes: locals xrms, yrms, xrms_err, yrms_err, xamp, yamp
    beamsizes,      \* get_beamsizes: last batch returned by getbeamsizes_from_img
    count,          \* get_beamsizes: batch counter
    i,              \* getbeamsizes_from_img: image index (0-based)
    icount,         \* getbeamsizes_from_img: per-image attempt counter
    repeat,         \* getbeamsizes_from_img: the while flag
    samples,        \* getbeamsizes_from_img: xrms[k], yrms[k], ..., im[k] per image
    meas,           \* getbeamsizes_from_img: last value returned by get_beam_image
    io_failed,      \* a persistence call of this measurement has failed
    all_oob,        \* every batch delivered to this get_beamsizes call so far
                    \* held no NaN and was out of bounds
    ret,            \* outcome of the call: "none", a returned tuple, or a raised error
    n_acq           \* get_beam_image calls made so far, when the run counts them
                    \* (-1 when it does not)

vars == << pc, online, meas_type, cntrl_pv, events, quad_val, cfg, args,
           resolution, loc, beamsizes, count, i, icount, repeat, samples,
           meas, io_failed, all_oob, ret, n_acq >>

----------------------------------------------------------------------------
(* Bounds of the model *)

MaxSamplesBound == 2    \* max_samples ranges over 0..MaxSamplesBound
MaxImages == 2          \* n_to_acquire ranges over 1..MaxImages
AttemptCap == 3         \* no image is acquired more often than this in a model run

----------------------------------------------------------------------------
(* Floats *)

RECURSIVE GCD(_, _)
GCD(a, b) == IF b = 0 THEN a ELSE GCD(b, a % b)

Abs(x) == IF x < 0 THEN -x ELSE x

NaN == [n |-> 0, d |-> 0]

Q(n, d) == LET g == GCD(Abs(n), d) IN [n |-> n \div g, d |-> d \div g]

Num(k) == [n |-> k, d |-> 1]

IsNaN(x) == x.d = 0

Mul(a, b) == IF IsNaN(a) \/ IsNaN(b) THEN NaN ELSE Q(a.n * b.n, a.d * b.d)

Add(a, b) == IF IsNaN(a) \/ IsNaN(b) THEN NaN
             ELSE Q(a.n * b.d + b.n * a.d, a.d * b.d)

Sub(a, b) == IF IsNaN(a) \/ IsNaN(b) THEN NaN
             ELSE Q(a.n * b.d - b.n * a.d, a.d * b.d)

DivInt(a, k) == IF IsNaN(a) THEN NaN ELSE Q(a.n, a.d * k)

Lt(a, b) == ~IsNaN(a) /\ ~IsNaN(b) /\ a.n * b.d < b.n * a.d
Le(a, b) == ~IsNaN(a) /\ ~IsNaN(b) /\ a.n * b.d <= b.n * a.d
Gt(a, b) == Lt(b, a)
Ge(a, b) == Le(b, a)


----------------------------------------------------------------------------
(* Configuration (config_dict) and the values the devices deliver *)

min_sigma == 1          \* img_proc["min_sigma"], pixels
max_sigma == 50         \* img_proc["max_sigma"], pixels
amp_threshold == 10     \* img_proc["amp_threshold"]
AreaFloor == 1500       \* the hardcoded floor of xamp * amp_threshold
BgPx == 1               \* the pixel value of img_proc["background_im"]

None == << >>
QuadVals == { << 3 >> }
MeasTypes == { "OTRS", "WIRE", "SCREEN" }

Configs == [ max_samples : 0 .. MaxSamplesBound,
             n_to_acquire : 1 .. MaxImages,
             avg_ims : BOOLEAN,
             subtract_bg : BOOLEAN ]

Micro == 10             \* 1e-6 m, in units of 1e-7 m

\* caget(resolution PV) * 1e-6, for a PV reading of 2 (micrometres per pixel)
Resolutions == { Mul(Num(2), Num(Micro)) }

Fit(xr, yr, xe, ye, xa, ya) ==
    [ xrms |-> xr, yrms |-> yr, xrms_err |-> xe, yrms_err |-> ye,
      xamp |-> xa, yamp |-> ya ]

GoodFit == Fit(Num(10), Num(12), Num(1), Num(4), Num(200), Num(300))
BigFit  == Fit(Num(60), Num(60), Num(1), Num(1), Num(200), Num(200))
DimFit  == Fit(Num(10), Num(12), Num(1), Num(1), Num(5), Num(200))
NaNFit  == Fit(NaN, NaN, NaN, NaN, NaN, NaN)
\* a fit in bounds on both axes whose error on y is not a number
HalfFit == Fit(Num(10), Num(12), Num(1), NaN, Num(200), Num(300))

\* What Image.get_sizes can return
Fits == { GoodFit, BigFit, DimFit, NaNFit, HalfFit }

\* What one camera read delivers: the raw pixel data and the fit that
\* Image.get_sizes makes of the processed image
CameraShots == { [ raw |-> Num(4), fit |-> GoodFit ],
                 [ raw |-> Num(8), fit |-> BigFit ],
                 [ raw |-> Num(4), fit |-> DimFit ],
                 [ raw |-> Num(8), fit |-> NaNFit ] }

\* What get_beamsizes_wire can return (xrms, yrms, xrms_err, yrms_err)
WireResults == { << Num(1000), Num(2000), Num(0), Num(0) >>,
                 << NaN, NaN, NaN, NaN >> }

\* np.random.uniform(low, high): the two ends and the midpoint
Uniform(low, high) == { low, DivInt(Add(low, high), 2), high }

----------------------------------------------------------------------------
(* Image (pyemittance.image): a frame is its pixel data and the number of   *)
(* times the background has been subtracted from it                         *)

Frame(px) == [ px |-> px, nbg |-> 0 ]

reshape_im(f) == f

subtract_bg(f) == [ px |-> Sub(f.px, Num(BgPx)), nbg |-> f.nbg + 1 ]

save_image_raising(ok) == [ raised |-> ~ok, failed |-> ~ok ]

\* saving_io.save_image, save_config, numpy_save, for a write that succeeds
\* (ok) or fails: a failed write is logged and swallowed inside the call, which
\* returns normally either way
save_image(ok) == [ raised |-> FALSE, failed |-> ~ok ]

save_config(ok) == [ raised |-> FALSE, failed |-> ~ok ]

numpy_save(ok) == [ raised |-> FALSE, failed |-> ~ok ]


----------------------------------------------------------------------------
(* Outcomes of a call *)

NoRet == [ kind |-> "none", val |-> << >>, err |-> "" ]
Returned(v) == [ kind |-> "value", val |-> v, err |-> "" ]
Raised(e) == [ kind |-> "raise", val |-> << >>, err |-> e ]

NaN4 == << NaN, NaN, NaN, NaN >>

\* [0] * num_images in each of xrms, yrms, xrms_err, yrms_err, xamp, yamp, im
ZeroSample == [ xrms |-> Num(0), yrms |-> Num(0), xrms_err |-> Num(0),
                yrms_err |-> Num(0), xamp |-> Num(0), yamp |-> Num(0),
                im |-> Frame(Num(0)) ]

\* the six NaN of lines 51-57; im is << >> where the list has no seventh entry
NaNBatch == [ xrms |-> NaN, yrms |-> NaN, xrms_err |-> NaN, yrms_err |-> NaN,
              xamp |-> NaN, yamp |-> NaN, im |-> << >> ]

\* locals of get_beamsizes after lines 51-56 (rms_err is not yet bound)
NaNLocals == [ xrms |-> NaN, yrms |-> NaN, xrms_err |-> NaN, yrms_err |-> NaN,
               xamp |-> NaN, yamp |-> NaN, rms_err |-> NaN ]

----------------------------------------------------------------------------
(* machine_io.MachineIO *)

Init ==
    /\ pc = "idle"
    /\ online = FALSE
    /\ meas_type \in MeasTypes
    /\ cntrl_pv = None
    /\ events = << >>
    /\ quad_val = None
    /\ cfg = [ max_samples |-> 0, n_to_acquire |-> 1, avg_ims |-> FALSE,
               subtract_bg |-> FALSE ]
    /\ args = [ reject_bad_beam |-> TRUE, save_summary |-> FALSE ]
    /\ resolution = NaN
    /\ loc = NaNLocals
    /\ beamsizes = NaNBatch
    /\ count = 0
    /\ i = 0
    /\ icount = 0
    /\ repeat = FALSE
    /\ samples = << >>
    /\ meas = ZeroSample
    /\ io_failed = FALSE
    /\ all_oob = TRUE
    /\ ret = NoRet
    /\ n_acq = -1

otrs_vars == << cfg, args, resolution, loc, beamsizes, count, i, icount,
                repeat, samples, meas, io_failed, all_oob, n_acq >>

\* the owner of the MachineIO object assigns its public attribute online
set_online(b) ==
    /\ pc = "idle"
    /\ online # b
    /\ online' = b
    /\ UNCHANGED << pc, meas_type, cntrl_pv, events, quad_val, ret >>
    /\ UNCHANGED otrs_vars

get_beamsizes_machine_any_mode(q) ==
    /\ pc = "idle"
    /\ quad_val' = q
    /\ pc' = IF q # None THEN "setquad" ELSE "dispatch"
    /\ UNCHANGED << online, meas_type, cntrl_pv, events, ret >>
    /\ UNCHANGED otrs_vars

\* get_beamsizes_machine(config, quad_val): entry and the test of line 52
get_beamsizes_machine(q) ==
    /\ pc = "idle"
    /\ quad_val' = q
    /\ pc' = IF online /\ q # None THEN "setquad" ELSE "dispatch"
    /\ UNCHANGED << online, meas_type, cntrl_pv, events, ret >>
    /\ UNCHANGED otrs_vars

setquad_put_dropped ==
    /\ pc = "setquad"
    /\ pc' = "sleep"
    /\ UNCHANGED << online, meas_type, cntrl_pv, events, quad_val, ret >>
    /\ UNCHANGED otrs_vars

\* setquad(value), line 53
setquad ==
    /\ pc = "setquad"
    /\ IF online
       THEN /\ cntrl_pv' = quad_val
            /\ events' = Append(events, "put")
       ELSE UNCHANGED << cntrl_pv, events >>
    /\ pc' = "sleep"
    /\ UNCHANGED << online, meas_type, quad_val, ret >>
    /\ UNCHANGED otrs_vars

settle_sleep_skipped ==
    /\ pc = "sleep"
    /\ pc' = "dispatch"
    /\ UNCHANGED << online, meas_type, cntrl_pv, events, quad_val, ret >>
    /\ UNCHANGED otrs_vars

\* time.sleep(self.settle_time), line 54
settle_sleep ==
    /\ pc = "sleep"
    /\ events' = Append(events, "sleep")
    /\ pc' = "dispatch"
    /\ UNCHANGED << online, meas_type, cntrl_pv, quad_val, ret >>
    /\ UNCHANGED otrs_vars


----------------------------------------------------------------------------
(* otrs_io.get_beamsizes *)

machine_vars == << online, meas_type, cntrl_pv, quad_val >>

\* lines 30-57 and the test of line 59
get_beamsizes_entry(reject, save, c, res) ==
    /\ cfg' = c
    /\ args' = [ reject_bad_beam |-> reject, save_summary |-> save ]
    /\ resolution' = res
    /\ loc' = NaNLocals
    /\ beamsizes' = NaNBatch
    /\ count' = 0
    /\ pc' = IF reject THEN "gb_while" ELSE "gb_else"
    /\ all_oob' = TRUE
    /\ UNCHANGED << i, icount, repeat, samples, meas, io_failed, ret, n_acq >>

\* get_beamsizes called by its own caller, with any arguments; the call
\* reads nothing of a MachineIO, so it is taken from the object as constructed
\* with the default meas_type only
get_beamsizes(reject, save, c, res) ==
    /\ pc = "idle"
    /\ ~online /\ meas_type = "OTRS"
    /\ get_beamsizes_entry(reject, save, c, res)
    /\ UNCHANGED machine_vars
    /\ UNCHANGED events

min_sigma_meters == Mul(Num(min_sigma), resolution)
max_sigma_meters == Mul(Num(max_sigma), resolution)

AnyNaN_rms_only(b) == IsNaN(b.xrms) \/ IsNaN(b.yrms)

\* np.isnan(np.array(beamsizes[0:6])).any(), line 72
AnyNaN(b) ==
    \/ IsNaN(b.xrms) \/ IsNaN(b.yrms) \/ IsNaN(b.xrms_err)
    \/ IsNaN(b.yrms_err) \/ IsNaN(b.xamp) \/ IsNaN(b.yamp)

\* the condition of the while of lines 63-73
WhileCond ==
    \/ Le(loc.xrms, min_sigma_meters)
    \/ Le(loc.yrms, min_sigma_meters)
    \/ Gt(loc.xrms, max_sigma_meters)
    \/ Gt(loc.yrms, max_sigma_meters)
    \/ Lt(loc.xamp, Num(amp_threshold))
    \/ Lt(loc.yamp, Num(amp_threshold))
    \/ Lt(Mul(loc.xamp, Num(amp_threshold)), Num(AreaFloor))
    \/ Lt(Mul(loc.yamp, Num(amp_threshold)), Num(AreaFloor))
    \/ AnyNaN(beamsizes)

\* getbeamsizes_from_img, lines 147-170: the per-image lists
StartBatch ==
    /\ samples' = [ k \in 1 .. cfg.n_to_acquire |-> ZeroSample ]
    /\ i' = -1
    /\ pc' = "img_for"

Exhausted_one_late == count = cfg.max_samples + 1

\* the test of line 75
Exhausted == count = cfg.max_samples

\* lines 75-88
get_beamsizes_exhausted ==
    /\ pc = "gb_while"
    /\ WhileCond
    /\ Exhausted
    /\ ret' = Returned(NaN4)
    /\ pc' = "gb_done"
    /\ UNCHANGED << cfg, args, resolution, loc, beamsizes, count, i, icount,
                    repeat, samples, meas, io_failed, all_oob, events, n_acq >>
    /\ UNCHANGED machine_vars

\* lines 90-95: the call of getbeamsizes_from_img
get_beamsizes_resample ==
    /\ pc = "gb_while"
    /\ WhileCond
    /\ ~Exhausted
    /\ StartBatch
    /\ UNCHANGED << cfg, args, resolution, loc, beamsizes, count, icount,
                    repeat, meas, io_failed, all_oob, events, ret, n_acq >>
    /\ UNCHANGED machine_vars

\* line 100
get_beamsizes_else ==
    /\ pc = "gb_else"
    /\ StartBatch
    /\ UNCHANGED << cfg, args, resolution, loc, beamsizes, count, icount,
                    repeat, meas, io_failed, all_oob, events, ret, n_acq >>
    /\ UNCHANGED machine_vars

Convert_rms_unscaled(b, res) ==
    [ xrms |-> b.xrms,
      yrms |-> Mul(b.yrms, res),
      xrms_err |-> b.xrms_err,
      yrms_err |-> Mul(b.yrms_err, Mul(res, res)),
      xamp |-> b.xamp,
      yamp |-> b.yamp,
      rms_err |-> Mul(b.xrms_err, Mul(res, res)) ]

\* lines 102-114 (error terms as squares)
Convert(b, res) ==
    [ xrms |-> Mul(b.xrms, res),
      yrms |-> Mul(b.yrms, res),
      xrms_err |-> b.xrms_err,
      yrms_err |-> Mul(b.yrms_err, Mul(res, res)),
      xamp |-> b.xamp,
      yamp |-> b.yamp,
      rms_err |-> Mul(b.xrms_err, Mul(res, res)) ]

\* lines 102-139
get_beamsizes_return ==
    /\ \/ pc = "gb_while" /\ ~WhileCond
       \/ pc = "gb_return"
    /\ \E ok1 \in BOOLEAN, ok2 \in BOOLEAN :
         LET l == Convert(beamsizes, resolution)
             s1 == save_config(ok1)
             s2 == numpy_save(ok2)
         IN  /\ loc' = l
             /\ IF args.save_summary
                THEN /\ io_failed' = (io_failed \/ s1.failed \/ (~s1.raised /\ s2.failed))
                     /\ ret' = IF s1.raised \/ s2.raised
                               THEN Raised("OSError")
                               ELSE Returned(<< l.xrms, l.yrms, l.xrms_err, l.yrms_err >>)
                ELSE /\ ok1 /\ ok2
                     /\ io_failed' = io_failed
                     /\ ret' = Returned(<< l.xrms, l.yrms, l.xrms_err, l.yrms_err >>)
    /\ pc' = "gb_done"
    /\ UNCHANGED << cfg, args, resolution, beamsizes, count, i, icount,
                    repeat, samples, meas, all_oob, events, n_acq >>
    /\ UNCHANGED machine_vars


----------------------------------------------------------------------------
(* otrs_io.get_beam_image *)

\* lines 317-343 for one camera read (use_roi off); ok: the write of
\* save_image succeeds
get_beam_image(shot, c, ok) ==
    LET f0 == reshape_im(Frame(shot.raw))
        f1 == IF c.subtract_bg THEN subtract_bg(f0) ELSE f0
        sv == save_image(ok)
    IN  [ raised |-> sv.raised,
          failed |-> sv.failed,
          value  |-> [ xrms |-> shot.fit.xrms, yrms |-> shot.fit.yrms,
                       xrms_err |-> shot.fit.xrms_err,
                       yrms_err |-> shot.fit.yrms_err,
                       xamp |-> shot.fit.xamp, yamp |-> shot.fit.yamp,
                       im |-> f1 ] ]

----------------------------------------------------------------------------
(* otrs_io.getbeamsizes_from_img *)

\* the thresholds that lines 152-155 read from config_dict["img_proc"]
im_proc == [ min_sigma |-> min_sigma, max_sigma |-> max_sigma,
             amp_threshold |-> amp_threshold ]

\* other threshold settings of img_proc, narrower and wider
ThresholdSets == [ min_sigma : { 1, 10, 11 },
                   max_sigma : { 50, 60, 61 },
                   amp_threshold : { 5, 6, 10 } ]

AcceptWith_max_reversed(m, T) ==
    /\ Ge(m.xamp, Num(T.amp_threshold))
    /\ Ge(m.yamp, Num(T.amp_threshold))
    /\ Gt(m.xrms, Num(T.min_sigma))
    /\ Gt(m.yrms, Num(T.min_sigma))
    /\ Gt(m.xrms, Num(T.max_sigma))
    /\ Gt(m.yrms, Num(T.max_sigma))

\* the test of lines 185-192 under the thresholds T
AcceptWith(m, T) ==
    /\ Ge(m.xamp, Num(T.amp_threshold))
    /\ Ge(m.yamp, Num(T.amp_threshold))
    /\ Gt(m.xrms, Num(T.min_sigma))
    /\ Gt(m.yrms, Num(T.min_sigma))
    /\ Lt(m.xrms, Num(T.max_sigma))
    /\ Lt(m.yrms, Num(T.max_sigma))

Accept_without_amplitude(m) ==
    /\ Gt(m.xrms, Num(min_sigma))
    /\ Gt(m.yrms, Num(min_sigma))
    /\ Lt(m.xrms, Num(max_sigma))
    /\ Lt(m.yrms, Num(max_sigma))

\* the test of lines 185-192
Accept(m) == AcceptWith(m, im_proc)

Repeat_one_more(m, n) == ~Accept(m) /\ n # cfg.max_samples + 1

\* lines 185-200: the value of repeat after an acquisition
Repeat(m, n) == ~Accept(m) /\ n # cfg.max_samples

\* one more call of get_beam_image (line 179)
Counted(n) == IF n < 0 THEN n ELSE n + 1

\* lines 172-175: the for statement and the start of an iteration
for_image ==
    /\ pc = "img_for"
    /\ IF i + 1 < cfg.n_to_acquire
       THEN /\ i' = i + 1
            /\ repeat' = TRUE
            /\ icount' = 0
            /\ pc' = "img_while"
       ELSE /\ pc' = "aggregate"
            /\ UNCHANGED << i, repeat, icount >>
    /\ UNCHANGED << cfg, args, resolution, loc, beamsizes, count, samples,
                    meas, io_failed, all_oob, events, ret, n_acq >>
    /\ UNCHANGED machine_vars

\* lines 178-200: one pass of the while
retake_image ==
    /\ pc = "img_while"
    /\ repeat
    /\ icount < AttemptCap
    /\ \E shot \in CameraShots, ok \in BOOLEAN :
         LET r == get_beam_image(shot, cfg, ok)
         IN  IF r.raised
             THEN /\ ret' = Raised("OSError")
                  /\ pc' = "gb_done"
                  /\ io_failed' = TRUE
                  /\ UNCHANGED << meas, samples, icount, repeat >>
             ELSE /\ meas' = r.value
                  /\ samples' = [ samples EXCEPT ![i + 1] = r.value ]
                  /\ icount' = icount + 1
                  /\ repeat' = Repeat(r.value, icount + 1)
                  /\ pc' = IF Repeat(r.value, icount + 1) THEN "img_while" ELSE "img_for"
                  /\ io_failed' = (io_failed \/ r.failed)
                  /\ ret' = ret
    /\ n_acq' = Counted(n_acq)
    /\ UNCHANGED << cfg, args, resolution, loc, beamsizes, count, i, all_oob,
                    events >>
    /\ UNCHANGED machine_vars

\* one of the per-image lists of lines 164-169
Column(smp, f) == [ k \in DOMAIN smp |-> smp[k][f] ]

RECURSIVE SumAt(_, _)
SumAt(v, idx) ==
    IF idx = {} THEN Num(0)
    ELSE LET k == CHOOSE x \in idx : TRUE
         IN  Add(v[k], SumAt(v, idx \ {k}))

MeanAt_over_all(v, idx) == DivInt(SumAt(v, idx), Len(v))

\* np.mean(np.array(v)[idx])
MeanAt(v, idx) == DivInt(SumAt(v, idx), Cardinality(idx))

\* np.std(np.array(v)[idx]), squared
StdSqAt(v, idx) ==
    LET m == MeanAt(v, idx)
        sq == [ k \in DOMAIN v |-> Mul(Sub(v[k], m), Sub(v[k], m)) ]
    IN  MeanAt(sq, idx)

\* idx = ~np.isnan(xrms), as the set of positions that hold True
ValidIdx(smp) == { k \in DOMAIN smp : ~IsNaN(smp[k].xrms) }

\* a batch passes every test that lines 64-71 name: RMS in
\* (min_sigma, max_sigma], amplitude and amplitude * amp_threshold at their floors
InBounds(b) ==
    /\ Gt(b.xrms, Num(min_sigma)) /\ Gt(b.yrms, Num(min_sigma))
    /\ Le(b.xrms, Num(max_sigma)) /\ Le(b.yrms, Num(max_sigma))
    /\ Ge(b.xamp, Num(amp_threshold)) /\ Ge(b.yamp, Num(amp_threshold))
    /\ Ge(Mul(b.xamp, Num(amp_threshold)), Num(AreaFloor))
    /\ Ge(Mul(b.yamp, Num(amp_threshold)), Num(AreaFloor))

OutOfBounds(b) == ~AnyNaN(b) /\ ~InBounds(b)

\* the return of getbeamsizes_from_img to get_beamsizes (lines 95-96, 100)
ReturnBatch(b) ==
    /\ beamsizes' = b
    /\ all_oob' = (all_oob /\ OutOfBounds(b))
    /\ count' = IF args.reject_bad_beam THEN count + 1 ELSE count
    /\ pc' = IF args.reject_bad_beam THEN "gb_while" ELSE "gb_return"

MeanImage_accepted_only(smp) ==
    LET px == [ k \in DOMAIN smp |-> smp[k].im.px ]
        acc == { k \in DOMAIN smp : Accept(smp[k]) }
    IN  [ px |-> MeanAt(px, IF acc = {} THEN DOMAIN smp ELSE acc),
          nbg |-> smp[1].im.nbg ]

\* line 214: np.mean(im, axis=0) over the frame kept for every image
MeanImage(smp) ==
    LET px == [ k \in DOMAIN smp |-> smp[k].im.px ]
    IN  [ px |-> MeanAt(px, DOMAIN smp),
          nbg |-> smp[1].im.nbg ]

\* lines 203-262: average the images, then fit once
average_images ==
    /\ pc = "aggregate"
    /\ cfg.avg_ims
    /\ \E fit \in Fits, ok \in BOOLEAN :
         LET mean_im == MeanImage(samples)
             im0 == reshape_im(mean_im)
             im1 == IF cfg.subtract_bg THEN subtract_bg(im0) ELSE im0
             sv == save_image(ok)
         IN  IF sv.raised
             THEN /\ ret' = Raised("OSError")
                  /\ pc' = "gb_done"
                  /\ io_failed' = TRUE
                  /\ UNCHANGED << beamsizes, count, all_oob >>
             ELSE /\ ReturnBatch([ xrms |-> fit.xrms, yrms |-> fit.yrms,
                                   xrms_err |-> fit.xrms_err,
                                   yrms_err |-> fit.yrms_err,
                                   xamp |-> fit.xamp, yamp |-> fit.yamp,
                                   im |-> << im1 >> ])
                  /\ io_failed' = (io_failed \/ sv.failed)
                  /\ ret' = ret
    /\ UNCHANGED << cfg, args, resolution, loc, i, icount, repeat, samples,
                    meas, events, n_acq >>
    /\ UNCHANGED machine_vars

average_fits_all_nan_zero ==
    /\ pc = "aggregate"
    /\ ~cfg.avg_ims
    /\ ValidIdx(samples) = {}
    /\ ReturnBatch([ NaNBatch EXCEPT !.xrms = Num(0), !.yrms = Num(0),
                                     !.xrms_err = Num(0), !.yrms_err = Num(0),
                                     !.xamp = Num(0), !.yamp = Num(0) ])
    /\ UNCHANGED << cfg, args, resolution, loc, i, icount, repeat, samples,
                    meas, io_failed, events, ret, n_acq >>
    /\ UNCHANGED machine_vars

\* lines 265-270: no valid sample
average_fits_all_nan ==
    /\ pc = "aggregate"
    /\ ~cfg.avg_ims
    /\ ValidIdx(samples) = {}
    /\ ReturnBatch(NaNBatch)
    /\ UNCHANGED << cfg, args, resolution, loc, i, icount, repeat, samples,
                    meas, io_failed, events, ret, n_acq >>
    /\ UNCHANGED machine_vars

\* lines 272-292 (error terms as squares: std^2 / len(idx))
AverageFits(smp) ==
    LET idx == ValidIdx(smp)
        col(f) == [ k \in DOMAIN smp |-> smp[k][f] ]
    IN  [ xrms |-> MeanAt(col("xrms"), idx),
          yrms |-> MeanAt(col("yrms"), idx),
          xrms_err |-> DivInt(StdSqAt(col("xrms"), idx), Len(smp)),
          yrms_err |-> DivInt(StdSqAt(col("yrms"), idx), Len(smp)),
          xamp |-> MeanAt(col("xamp"), idx),
          yamp |-> MeanAt(col("yamp"), idx),
          im |-> << reshape_im(smp[1].im) >> ]

average_fits ==
    /\ pc = "aggregate"
    /\ ~cfg.avg_ims
    /\ ValidIdx(samples) # {}
    /\ ReturnBatch(AverageFits(samples))
    /\ UNCHANGED << cfg, args, resolution, loc, i, icount, repeat, samples,
                    meas, io_failed, events, ret, n_acq >>
    /\ UNCHANGED machine_vars

----------------------------------------------------------------------------
(* machine_io.MachineIO.get_beamsizes_machine, lines 56-64 *)

\* lines 56-57: get_beamsizes_otrs calls get_beamsizes(config_dict=config_dict)
dispatch_otrs ==
    /\ pc = "dispatch"
    /\ meas_type = "OTRS" /\ online
    /\ events' = Append(events, "otrs")
    /\ \E c \in Configs, res \in Resolutions :
         get_beamsizes_entry(TRUE, FALSE, c, res)
    /\ UNCHANGED machine_vars

\* lines 58-60
dispatch_wire ==
    /\ pc = "dispatch"
    /\ ~(meas_type = "OTRS" /\ online)
    /\ meas_type = "WIRE" /\ online
    /\ events' = Append(events, "wire")
    /\ \E w \in WireResults : ret' = Returned(w)
    /\ pc' = "done"
    /\ UNCHANGED machine_vars
    /\ UNCHANGED otrs_vars

dispatch_offline_as_else ==
    /\ pc = "dispatch"
    /\ ~(meas_type = "OTRS" /\ online)
    /\ ~(meas_type = "WIRE" /\ online)
    /\ \E x \in Uniform(Num(500), Num(5000)),
          y \in Uniform(Num(1000), Num(6000)) :
         ret' = Returned(<< x, y, Num(0), Num(0) >>)
    /\ pc' = "done"
    /\ UNCHANGED events
    /\ UNCHANGED machine_vars
    /\ UNCHANGED otrs_vars

\* lines 61-62
dispatch_offline ==
    /\ pc = "dispatch"
    /\ ~(meas_type = "OTRS" /\ online)
    /\ ~(meas_type = "WIRE" /\ online)
    /\ ~online
    /\ \E x \in Uniform(Num(500), Num(5000)),
          y \in Uniform(Num(1000), Num(6000)) :
         ret' = Returned(<< x, y, Num(0), Num(0) >>)
    /\ pc' = "done"
    /\ UNCHANGED events
    /\ UNCHANGED machine_vars
    /\ UNCHANGED otrs_vars

\* lines 63-64
dispatch_unsupported ==
    /\ pc = "dispatch"
    /\ ~(meas_type = "OTRS" /\ online)
    /\ ~(meas_type = "WIRE" /\ online)
    /\ online
    /\ ret' = Raised("NotImplementedError")
    /\ pc' = "done"
    /\ UNCHANGED events
    /\ UNCHANGED machine_vars
    /\ UNCHANGED otrs_vars

----------------------------------------------------------------------------

Next ==
    \/ \E b \in BOOLEAN : set_online(b)
    \/ \E q \in {None} \cup QuadVals : get_beamsizes_machine(q)
    \/ setquad
    \/ settle_sleep
    \/ dispatch_otrs
    \/ dispatch_wire
    \/ dispatch_offline
    \/ dispatch_unsupported
    \/ \E reject \in BOOLEAN, save \in BOOLEAN, c \in Configs, res \in Resolutions :
         get_beamsizes(reject, save, c, res)
    \/ get_beamsizes_exhausted
    \/ get_beamsizes_resample
    \/ get_beamsizes_else
    \/ get_beamsizes_return
    \/ for_image
    \/ retake_image
    \/ average_images
    \/ average_fits_all_nan
    \/ average_fits

Spec == Init /\ [][Next]_vars


----------------------------------------------------------------------------
(* Properties *)

\* a get_beamsizes call with reject_bad_beam on has returned a tuple
RejectingCallReturned ==
    pc = "gb_done" /\ args.reject_bad_beam /\ ret.kind = "value"

\* get_beamsizes has returned through lines 102-139 (not through line 88)
SuccessReturn ==
    /\ pc = "gb_done" /\ ret.kind = "value"
    /\ args.reject_bad_beam => ~AnyNaN(beamsizes)

\* C1: with reject_bad_beam on, every returned tuple that is not all-NaN
\* comes from a batch whose aggregated values are in bounds: min_sigma < rms
\* <= max_sigma, amplitude >= amp_threshold, amplitude * amp_threshold >= 1500
C1_ReturnedBatchInBounds ==
    (RejectingCallReturned /\ ret.val # NaN4) => InBounds(beamsizes)

\* C2: when every batch delivered is out of bounds and free of NaN,
\* get_beamsizes ends after exactly max_samples batches with the all-NaN tuple
C2_OutOfBoundsExhausts ==
    (pc = "gb_done" /\ args.reject_bad_beam /\ all_oob)
        => (count = cfg.max_samples /\ ret = Returned(NaN4))

\* C3: with reject_bad_beam on, the number of batches taken never exceeds
\* max_samples, and a call that ends with the loop condition still true
\* (exhaustion) has returned the all-NaN tuple as a value, not raised
C3_BatchesBounded ==
    /\ args.reject_bad_beam => count <= cfg.max_samples
    /\ (pc = "gb_done" /\ args.reject_bad_beam /\ AnyNaN(beamsizes))
          => (ret = Returned(NaN4) /\ count = cfg.max_samples)

C3_Witness ==
    /\ pc = "gb_done" /\ args.reject_bad_beam
    /\ cfg.max_samples = MaxSamplesBound /\ count = cfg.max_samples
    /\ AnyNaN(beamsizes) /\ ret = Returned(NaN4)

\* C4: on the success path both returned error terms are the accepted batch's
\* pixel-unit error terms multiplied by the resolution (in squares: by its square)
C4_ErrorsScaled ==
    SuccessReturn =>
        /\ ret.val[3] = Mul(beamsizes.xrms_err, Mul(resolution, resolution))
        /\ ret.val[4] = Mul(beamsizes.yrms_err, Mul(resolution, resolution))

\* C5: on the success path the returned xrms and yrms are the accepted batch's
\* pixel-unit xrms and yrms multiplied by the resolution read for the call
C5_RmsScaled ==
    SuccessReturn =>
        /\ ret.val[1] = Mul(beamsizes.xrms, resolution)
        /\ ret.val[2] = Mul(beamsizes.yrms, resolution)

\* resolution 2e-6 m/px and pixel RMS 10 give 2e-5 m
C5_Witness ==
    /\ SuccessReturn /\ args.reject_bad_beam
    /\ resolution = Mul(Num(2), Num(Micro))
    /\ beamsizes.xrms = Num(10)
    /\ ret.val[1] = Mul(Num(20), Num(Micro))

BackendEvents == { "otrs", "wire" }

\* get_beamsizes_machine has passed its dispatch in online mode with a
\* supported measurement type
BackendStarted ==
    /\ online /\ meas_type \in { "OTRS", "WIRE" }
    /\ pc \notin { "idle", "setquad", "sleep", "dispatch" }

\* C6: online with quad_val not None, the put of quad_val comes first, then
\* the settle sleep, then the backend; with quad_val None no put is issued
\* and the backend is called all the same
C6_PutSleepBackend ==
    LET b == IF meas_type = "OTRS" THEN "otrs" ELSE "wire"
    IN  /\ pc \in { "idle", "setquad", "sleep", "dispatch" }
              => \A k \in DOMAIN events : events[k] \notin BackendEvents
        /\ BackendStarted
              => /\ events = IF quad_val = None THEN << b >>
                             ELSE << "put", "sleep", b >>
                 /\ cntrl_pv = quad_val

C6_Witness ==
    /\ BackendStarted /\ quad_val # None
    /\ events = << "put", "sleep", "otrs" >> /\ cntrl_pv = quad_val

\* C7: offline, get_beamsizes_machine returns (x, y, 0, 0) with x in
\* [0.5e-4, 5e-4] and y in [1e-4, 6e-4] for every quad_val and meas_type, and
\* issues no put, no sleep and no backend call
C7_OfflineSynthetic ==
    ~online =>
        /\ events = << >> /\ cntrl_pv = None
        /\ pc \notin { "setquad", "sleep" }
        /\ pc = "done" =>
              /\ ret.kind = "value"
              /\ Ge(ret.val[1], Mul(Num(50), Num(Micro)))
              /\ Le(ret.val[1], Mul(Num(500), Num(Micro)))
              /\ Ge(ret.val[2], Mul(Num(100), Num(Micro)))
              /\ Le(ret.val[2], Mul(Num(600), Num(Micro)))
              /\ ret.val[3] = Num(0) /\ ret.val[4] = Num(0)

C7_Witness ==
    /\ ~online /\ pc = "done" /\ quad_val # None /\ meas_type = "WIRE"
    /\ ret.kind = "value"

\* C8: online with a meas_type that is neither OTRS nor WIRE, the call ends
\* with NotImplementedError and no backend call; with OTRS or WIRE online it
\* never raises that error
C8_UnsupportedRaises ==
    /\ (online /\ meas_type \notin { "OTRS", "WIRE" } /\ pc \in { "done", "gb_done" })
          => /\ ret = Raised("NotImplementedError")
             /\ \A k \in DOMAIN events : events[k] \notin BackendEvents
    /\ (online /\ meas_type \notin { "OTRS", "WIRE" }) => pc # "gb_while"
    /\ ret.err = "NotImplementedError"
          => (online /\ meas_type \notin { "OTRS", "WIRE" })

C8_Witness ==
    /\ pc = "done" /\ online /\ meas_type = "SCREEN"
    /\ ret = Raised("NotImplementedError")


C10_Accepted(m) ==
    /\ Ge(m.xamp, Num(amp_threshold)) /\ Ge(m.yamp, Num(amp_threshold))
    /\ Lt(Num(min_sigma), m.xrms) /\ Lt(m.xrms, Num(max_sigma))
    /\ Lt(Num(min_sigma), m.yrms) /\ Lt(m.yrms, Num(max_sigma))

\* C10: for each image the retry loop stops at the first accepted
\* acquisition, or at acquisition number max_samples if none was accepted;
\* either way the values and the frame kept for the image are those of the
\* last acquisition, and the image stays in the batch
C10_PerImageStop ==
    [][ /\ (pc = "img_while" /\ icount' = icount + 1)
            => /\ repeat
               /\ repeat' = ~(C10_Accepted(meas') \/ icount' = cfg.max_samples)
               /\ pc' = IF repeat' THEN "img_while" ELSE "img_for"
               /\ i' = i
               /\ samples' = [ samples EXCEPT ![i + 1] = meas' ]
        /\ pc = "img_for"
            => /\ samples' = samples
               /\ Len(samples) = cfg.n_to_acquire
               /\ i >= 0 => ~repeat
      ]_vars

\* EXHAUSTED: the second of max_samples = 2 acquisitions was rejected as well,
\* and its values (60 px, not NaN) are what image i holds
C10_Witness ==
    /\ pc = "img_for" /\ ~repeat
    /\ cfg.max_samples = 2 /\ icount = 2
    /\ ~C10_Accepted(meas) /\ meas.xrms = Num(60)
    /\ samples[i + 1] = meas

\* C11: for every max_samples >= 0 the per-image retry loop is over after at
\* most max_samples acquisitions of the image
C11_AttemptsBounded ==
    pc \in { "img_while", "img_for", "aggregate" } => icount <= cfg.max_samples

\* C12: the background is subtracted from the data of a frame exactly once
\* when subtract_bg is configured (and never otherwise): in no frame held by
\* the pipeline, the frame of the average-images branch included, has it been
\* subtracted twice
C12_BackgroundOnce ==
    LET once == IF cfg.subtract_bg THEN 1 ELSE 0
    IN  /\ \A k \in DOMAIN samples :
              samples[k].im.nbg <= once
        /\ \A k \in DOMAIN beamsizes.im :
              beamsizes.im[k].nbg = once

----------------------------------------------------------------------------
(* The aggregation of a batch of up to MaxFitImages images.  The initial    *)
(* states are those get_beamsizes is in when the for loop of a first batch  *)
(* has ended with max_samples = 1: every image was acquired once and kept.  *)

MaxFitImages == 3

ShotValues(c) == { get_beam_image(shot, c, TRUE).value : shot \in CameraShots }

InitFits ==
    /\ pc = "aggregate"
    /\ online = FALSE
    /\ meas_type = "OTRS"
    /\ cntrl_pv = None
    /\ events = << >>
    /\ quad_val = None
    /\ \E n \in 1 .. MaxFitImages :
         /\ cfg = [ max_samples |-> 1, n_to_acquire |-> n, avg_ims |-> FALSE,
                    subtract_bg |-> FALSE ]
         /\ samples \in [ 1 .. n -> ShotValues(cfg) ]
         /\ i = n - 1
         /\ meas = samples[n]
         /\ n_acq = -1
    /\ args \in [ reject_bad_beam : BOOLEAN, save_summary : { FALSE } ]
    /\ resolution \in Resolutions
    /\ loc = NaNLocals
    /\ beamsizes = NaNBatch
    /\ count = 0
    /\ icount = 1
    /\ repeat = FALSE
    /\ io_failed = FALSE
    /\ all_oob = TRUE
    /\ ret = NoRet

NextFits ==
    \/ average_fits
    \/ average_fits_all_nan
    \/ get_beamsizes_exhausted
    \/ get_beamsizes_return

SpecFits == InitFits /\ [][NextFits]_vars

\* getbeamsizes_from_img has returned the batch made of samples by the
\* average-fits policy, with at least one valid sample
FitsAveraged ==
    /\ pc \in { "gb_while", "gb_return" }
    /\ ~cfg.avg_ims
    /\ samples # << >>
    /\ ValidIdx(samples) # {}

\* C13: in the average-fits policy the RMS error of each axis is the standard
\* deviation of the valid per-image RMS values divided by the square root of
\* the number of valid samples (in squares: the variance divided by that number)
C13_ErrorOverValidCount ==
    FitsAveraged =>
        LET idx == ValidIdx(samples)
        IN  /\ beamsizes.xrms_err
                 = DivInt(StdSqAt(Column(samples, "xrms"), idx), Cardinality(idx))
            /\ beamsizes.yrms_err
                 = DivInt(StdSqAt(Column(samples, "yrms"), idx), Cardinality(idx))

\* C14: in the average-fits policy, when exactly one per-image sample is
\* non-NaN, whatever its position and the number of images, the returned RMS
\* of each axis is that sample's RMS and both returned RMS errors are zero
C14_SingleValidSample ==
    (FitsAveraged /\ Cardinality(ValidIdx(samples)) = 1) =>
        \A k \in ValidIdx(samples) :
            /\ beamsizes.xrms = samples[k].xrms
            /\ beamsizes.yrms = samples[k].yrms
            /\ beamsizes.xrms_err = Num(0)
            /\ beamsizes.yrms_err = Num(0)

\* three images of which only the second has a fit, returned as the batch
C14_Witness ==
    /\ FitsAveraged
    /\ Len(samples) = 3
    /\ ValidIdx(samples) = { 2 }
    /\ beamsizes.xrms = GoodFit.xrms
    /\ beamsizes.xrms_err = Num(0)

\* C15: in the average-fits policy a batch in which every per-image RMS is NaN
\* is answered at once with the all-NaN sextuple, no frame processed and
\* nothing raised; get_beamsizes counts it as a failed batch attempt, takes
\* another batch while attempts remain, and once max_samples attempts are
\* counted returns the all-NaN 4-tuple
C15_AllNaNBatch ==
    /\ [][ /\ (pc = "aggregate" /\ ~cfg.avg_ims /\ ValidIdx(samples) = {})
               => /\ beamsizes' = NaNBatch
                  /\ beamsizes'.im = << >>
                  /\ ret' = ret
                  /\ ret = NoRet
                  /\ args.reject_bad_beam
                       => (count' = count + 1 /\ pc' = "gb_while")
           /\ (pc = "gb_while" /\ ~cfg.avg_ims /\ beamsizes = NaNBatch)
               => \/ /\ count < cfg.max_samples
                     /\ pc' = "img_for"
                     /\ ret' = ret
                  \/ /\ count = cfg.max_samples
                     /\ pc' = "gb_done"
                     /\ ret' = Returned(NaN4)
         ]_vars
    /\ [](RejectingCallReturned /\ ~cfg.avg_ims /\ beamsizes = NaNBatch
            => ret = Returned(NaN4) /\ count = cfg.max_samples)

\* two batches of two images with no fit at all, answered by the NaN 4-tuple
C15_Witness ==
    /\ RejectingCallReturned
    /\ ~cfg.avg_ims
    /\ cfg.max_samples = 2 /\ cfg.n_to_acquire = 2
    /\ ValidIdx(samples) = {}
    /\ beamsizes = NaNBatch
    /\ count = 2
    /\ ret = Returned(NaN4)

\* C16: in the average-images policy the frame of the batch is the mean of
\* the frames kept for all the images, accepted or not (less the background
\* when subtract_bg is set); the values returned are those of one fit, in
\* bounds or not, and nothing is short-circuited when every per-image RMS is
\* NaN
C16_AverageImages ==
    [][ (pc = "aggregate" /\ cfg.avg_ims)
          => LET px == [ k \in DOMAIN samples |-> samples[k].im.px ]
                 mean == DivInt(SumAt(px, DOMAIN samples), cfg.n_to_acquire)
                 b == beamsizes'
             IN  /\ Len(samples) = cfg.n_to_acquire
                 /\ Len(b.im) = 1
                 /\ b.im[1].px = IF cfg.subtract_bg
                                 THEN Sub(mean, Num(BgPx)) ELSE mean
                 /\ \E fit \in Fits :
                      /\ b.xrms = fit.xrms /\ b.yrms = fit.yrms
                      /\ b.xrms_err = fit.xrms_err /\ b.yrms_err = fit.yrms_err
                      /\ b.xamp = fit.xamp /\ b.yamp = fit.yamp
                 /\ ret' = ret
                 /\ pc' \in { "gb_while", "gb_return" }
      ]_vars

\* two images without a fit, averaged and fitted all the same; the fit of the
\* averaged frame is out of bounds and is what the batch returns
C16_Witness ==
    /\ pc = "gb_return"
    /\ cfg.avg_ims
    /\ cfg.n_to_acquire = 2
    /\ ValidIdx(samples) = {}
    /\ beamsizes.xrms = BigFit.xrms
    /\ beamsizes.im = << samples[1].im >>

\* T2 is at least as wide as T1: lower or equal min_sigma and amp_threshold,
\* higher or equal max_sigma
Wider(T1, T2) ==
    /\ T2.min_sigma <= T1.min_sigma
    /\ T2.max_sigma >= T1.max_sigma
    /\ T2.amp_threshold <= T1.amp_threshold

\* C17: the per-image acceptance test is monotonic in its thresholds: an
\* acquired sample that is accepted under thresholds T is accepted under every
\* thresholds T2 with min_sigma and amp_threshold no higher and max_sigma no
\* lower
C17_AcceptMonotonic ==
    \A T1 \in ThresholdSets, T2 \in ThresholdSets :
        (Wider(T1, T2) /\ AcceptWith(meas, T1)) => AcceptWith(meas, T2)

\* an acquisition that the thresholds in force reject (60 px against
\* max_sigma 50) and that wider ones (max_sigma 61) accept
C17_Witness ==
    /\ pc \in { "img_while", "img_for" }
    /\ icount >= 1
    /\ meas.xrms = BigFit.xrms
    /\ ~Accept(meas)
    /\ \E T1 \in ThresholdSets, T2 \in ThresholdSets :
         /\ T1 # T2 /\ Wider(T1, T2) /\ Wider(im_proc, T1)
         /\ AcceptWith(meas, T1) /\ AcceptWith(meas, T2)

\* C18: with reject_bad_beam on, the 4-tuple that get_beamsizes returns is
\* all NaN or holds no NaN at all, never some of each
C18_NoPartialNaN ==
    RejectingCallReturned =>
        \/ \A k \in 1 .. 4 : IsNaN(ret.val[k])
        \/ \A k \in 1 .. 4 : ~IsNaN(ret.val[k])

\* the last batch allowed had sizes in bounds and a NaN error on y only: it
\* was rejected and the call answered with four NaNs
C18_Witness ==
    /\ RejectingCallReturned
    /\ cfg.max_samples >= 1
    /\ count = cfg.max_samples
    /\ ~IsNaN(beamsizes.xrms) /\ ~IsNaN(beamsizes.yrms)
    /\ IsNaN(beamsizes.yrms_err)
    /\ InBounds([ beamsizes EXCEPT !.yrms_err = Num(1) ])
    /\ ret = Returned(NaN4)

----------------------------------------------------------------------------
(* One call of get_beamsizes in the average-fits policy, by its own caller, *)
(* in a run that counts the calls of get_beam_image.                        *)

AcqConfigs == { c \in Configs : ~c.avg_ims /\ ~c.subtract_bg }

InitAcq ==
    /\ pc = "idle"
    /\ online = FALSE
    /\ meas_type = "OTRS"
    /\ cntrl_pv = None
    /\ events = << >>
    /\ quad_val = None
    /\ cfg = [ max_samples |-> 0, n_to_acquire |-> 1, avg_ims |-> FALSE,
               subtract_bg |-> FALSE ]
    /\ args = [ reject_bad_beam |-> TRUE, save_summary |-> FALSE ]
    /\ resolution = NaN
    /\ loc = NaNLocals
    /\ beamsizes = NaNBatch
    /\ count = 0
    /\ i = 0
    /\ icount = 0
    /\ repeat = FALSE
    /\ samples = << >>
    /\ meas = ZeroSample
    /\ io_failed = FALSE
    /\ all_oob = TRUE
    /\ ret = NoRet
    /\ n_acq = 0

NextAcq ==
    \/ \E reject \in BOOLEAN, c \in AcqConfigs, res \in Resolutions :
         get_beamsizes(reject, FALSE, c, res)
    \/ get_beamsizes_exhausted
    \/ get_beamsizes_resample
    \/ get_beamsizes_else
    \/ get_beamsizes_return
    \/ for_image
    \/ retake_image
    \/ average_fits_all_nan
    \/ average_fits

SpecAcq == InitAcq /\ [][NextAcq]_vars

\* batches that have been returned to get_beamsizes so far
BatchesDone ==
    IF args.reject_bad_beam THEN count
    ELSE IF pc \in { "gb_return", "gb_done" } THEN 1 ELSE 0

\* images of the current batch whose retry loop is over
ImagesDone ==
    CASE pc = "img_while" -> i
      [] pc = "img_for" -> i + 1
      [] pc = "aggregate" -> cfg.n_to_acquire
      [] OTHER -> 0

\* C19: for max_samples >= 1 one call of get_beamsizes makes at most
\* max_samples * num_images * max_samples calls of get_beam_image: at most
\* max_samples batches, and in each batch between 1 and max_samples calls for
\* every image, the attempt counter of an image starting from zero
C19_AcquisitionsBounded ==
    (cfg.max_samples >= 1 /\ pc # "idle") =>
        LET M == cfg.max_samples
            N == cfg.n_to_acquire
            cur == IF pc = "img_while" THEN icount ELSE 0
        IN  /\ n_acq <= M * N * M
            /\ BatchesDone <= M
            /\ pc = "img_while" => icount < M
            /\ (pc = "img_for" /\ i >= 0) => (1 <= icount /\ icount <= M)
            /\ n_acq >= (BatchesDone * N + ImagesDone) + cur
            /\ n_acq <= (BatchesDone * N + ImagesDone) * M + cur

\* two batches of two images, every image acquired twice: eight calls
C19_Witness ==
    /\ pc = "gb_done"
    /\ cfg.max_samples = 2 /\ cfg.n_to_acquire = 2
    /\ args.reject_bad_beam
    /\ n_acq = 8
    /\ ret = Returned(NaN4)

\* C20: when the unsupported-measurement-type error is raised for a call with
\* a quad_val, the actuator has been put to quad_val and the settle sleep has
\* been taken before: the failed call has moved the actuator
C20_ErrorAfterActuation ==
    (ret.err = "NotImplementedError" /\ quad_val # None) =>
        /\ online
        /\ events = << "put", "sleep" >>
        /\ cntrl_pv = quad_val
        /\ cntrl_pv # None

\* an online call with quad_val 3 on a screen: the error, after the put
C20_Witness ==
    /\ pc = "done"
    /\ online /\ meas_type = "SCREEN"
    /\ quad_val \in QuadVals
    /\ ret = Raised("NotImplementedError")
    /\ cntrl_pv = quad_val
    /\ events = << "put", "sleep" >>

=============================================================================
